---- MODULE Spec2Model ----
(***************************************************************************)
(* The LLM OS dispatcher (llmos/interfaces/dispatcher.py), the SDK client  *)
(* it calls (llmos/interfaces/sdk_client.py) and the orchestrator          *)
(* (llmos/interfaces/orchestrator.py), as concurrent dispatch tasks on one *)
(* token economy and one trace store.                                      *)
(*                                                                         *)
(* Money is counted in thousandths of a dollar (0.50 USD = 500), and       *)
(* confidences and success ratings in hundredths (0.92 = 92).              *)
(* Each dispatch task advances from one suspension point (await) to the    *)
(* next in one step.  Keyword arguments the dispatcher passes and the SDK  *)
(* client does not declare are not modelled.                               *)
(***************************************************************************)
EXTENDS Integers, Sequences, FiniteSets, TLC

VARIABLES
    balance,        \* TokenEconomy.balance
    spend_log,      \* TokenEconomy.spend_log, a sequence of [cost, reason]
    traces,         \* TraceManager's store: goal signature -> trace slot
    sdk_available,  \* is_sdk_available(): Dispatcher.sdk_client is set
    pc,             \* where each dispatch task stands
    d,              \* the locals of each dispatch call
    result,         \* what each dispatch call returned or raised
    hist,           \* the phases each dispatch call went through, in order
    paid,           \* cost the adapter reported to each dispatch call so far
    orch,           \* the locals of each dispatch's SystemAgent.orchestrate
    started,        \* number of dispatch calls made so far
    prev,           \* the dispatch call that returned last
    probe,          \* the arguments and the value of a pure function applied
                    \* on its own
    agents,         \* ComponentRegistry: the names agent specs are registered
                    \* under
    cortex,         \* Dispatcher.cortex: whether it is made and initialized
    running         \* LLMOS._running

vars == <<balance, spend_log, traces, sdk_available, pc, d, result, hist,
          paid, orch, started, prev, probe, agents, cortex, running>>

\* the state of the dispatcher and of what it calls
dvars == <<balance, spend_log, traces, sdk_available, pc, d, result, hist,
           paid, orch, started, prev, agents, cortex, running>>

-----------------------------------------------------------------------------
(* Bounds of the model *)

MaxDispatches == 2
MaxSteps == 2
MaxMessages == 1
MaxBlocks == 2
MaxStream == 2

Procs == {"d1", "d2"}

(* Program constants *)

InitialBudget == 1000
EstimatedLearnerCost == 500
EstimatedMixedCost == 250
PerMessageCost == 1
FollowerMinConfidence == 92
MixedMinConfidence == 75
CrystallizedMinConfidence == 75
SeedUsageCount == 5
SeedSuccessRating == 95

(* Inputs *)

Goals == {"ga", "gb"}
Modes == {"AUTO", "CRYSTALLIZED", "FOLLOWER", "MIXED", "LEARNER", "ORCHESTRATOR"}
MaxCostChoices == {1, 500}
AdapterCosts == {600}

-----------------------------------------------------------------------------
(* Goal texts and signatures.  The content hash is injective on the texts  *)
(* of the model; the few-shot prompt of a goal is a text of its own.       *)

FewShotText == [ga |-> "fs_ga", gb |-> "fs_gb"]

SigOf == [ga |-> "s_ga", gb |-> "s_gb", gp |-> "s_gp",
          fs_ga |-> "s_fs_ga", fs_gb |-> "s_fs_gb"]

\* "gp" is the goal of an earlier session, a paraphrase of "ga"
Sigs == {SigOf[g] : g \in Goals \cup {"gp"}}

GoalSignature(goal) == SigOf[goal]

EmptySlot == [stored |-> FALSE, goal_text |-> "none", success_rating |-> 0,
              usage_count |-> 0, mode |-> "none", tool |-> "none",
              error_notes |-> FALSE]

-----------------------------------------------------------------------------
(* TokenEconomy (kernel/token_economy.py) *)

\* check_budget(amount): raises LowBatteryError when balance < amount
CheckBudget(bal, amount) == bal >= amount

\* deduct(amount, reason): refused when the balance would become negative,
\* otherwise the balance decreases and one entry is appended to the log
Deduct(bal, log, amount, reason) ==
    IF bal - amount < 0
    THEN [ok |-> FALSE, balance |-> bal, log |-> log]
    ELSE [ok |-> TRUE, balance |-> bal - amount,
          log |-> Append(log, [cost |-> amount, reason |-> reason])]

NoCharge(bal, log) == [ok |-> TRUE, balance |-> bal, log |-> log]

\* sum(log['cost'] for log in spend_log)
RECURSIVE TotalSpent(_)
TotalSpent(log) ==
    IF log = <<>> THEN 0 ELSE Head(log).cost + TotalSpent(Tail(log))

-----------------------------------------------------------------------------
(* TraceManager (memory/traces_sdk.py) *)

\* the similarity of a goal to the goal text of a stored trace
Similarity(goal, text) ==
    IF text = goal THEN 100
    ELSE IF {goal, text} = {"ga", "gp"} THEN 95
    ELSE IF {goal, text} \in {{"ga", "gb"}, {"gb", "gp"}} THEN 80
    ELSE 10

NotFound == [found |-> FALSE, sig |-> "none", confidence |-> 0]

\* find_trace(goal): the trace stored under the goal's signature
FindTrace(store, goal) ==
    IF store[GoalSignature(goal)].stored
    THEN [found |-> TRUE, sig |-> GoalSignature(goal), confidence |-> 100]
    ELSE NotFound

\* ties on confidence go to the higher usage_count, then success_rating
Preferred(store, goal, s, t) ==
    LET cs == Similarity(goal, store[s].goal_text)
        ct == Similarity(goal, store[t].goal_text)
    IN  \/ cs > ct
        \/ cs = ct /\ store[s].usage_count > store[t].usage_count
        \/ cs = ct /\ store[s].usage_count = store[t].usage_count
                   /\ store[s].success_rating >= store[t].success_rating

\* find_trace_with_llm(goal, min_confidence): the exact match with
\* confidence 1.0, else the most similar trace if it reaches min_confidence
FindTraceWithLLM(store, goal, min_confidence) ==
    LET cands == {s \in Sigs : /\ store[s].stored
                               /\ Similarity(goal, store[s].goal_text)
                                      >= min_confidence}
    IN  IF store[GoalSignature(goal)].stored THEN FindTrace(store, goal)
        ELSE IF cands = {} THEN NotFound
        ELSE LET best == CHOOSE s \in cands :
                             \A t \in cands : Preferred(store, goal, s, t)
             IN  [found |-> TRUE, sig |-> best,
                  confidence |-> Similarity(goal, store[best].goal_text)]

\* the paid similarity calls of one find_trace_with_llm: none when the goal
\* has an exact match or the store is empty, else one call to the LLM
LLMCalls(store, goal) ==
    IF store[GoalSignature(goal)].stored THEN 0
    ELSE IF \E s \in Sigs : store[s].stored THEN 1
    ELSE 0

\* variant: a confidence on a threshold falls into the band below it
ModeHintExclusive(found, confidence) ==
    IF found /\ confidence > FollowerMinConfidence THEN "FOLLOWER"
    ELSE IF found /\ confidence > MixedMinConfidence THEN "MIXED"
    ELSE "LEARNER"

\* the confidence bands of a match
ModeHint(found, confidence) ==
    IF found /\ confidence >= FollowerMinConfidence THEN "FOLLOWER"
    ELSE IF found /\ confidence >= MixedMinConfidence THEN "MIXED"
    ELSE "LEARNER"

\* save_trace(trace): overwrites the slot of the trace's signature
SaveTrace(store, sig, trace) == [store EXCEPT ![sig] = trace]

\* update_usage(signature): one more use, a successful one
UpdateUsage(store, sig) ==
    [store EXCEPT ![sig].usage_count = @ + 1,
                  ![sig].success_rating = (80 * @ + 20 * 100) \div 100]

-----------------------------------------------------------------------------
(* The auto mode selection strategy (kernel/mode_strategies.py) *)

\* the goal signals multi-step complexity (" and ", "then", ";")
IsComplex(goal) == goal = "gb"

AutoMode(store, goal) ==
    LET r == FindTraceWithLLM(store, goal, MixedMinConfidence)
    IN  IF r.found /\ store[r.sig].tool # "none" THEN "CRYSTALLIZED"
        ELSE IF r.found THEN ModeHint(TRUE, r.confidence)
        ELSE IF IsComplex(goal) THEN "ORCHESTRATOR"
        ELSE "LEARNER"

-----------------------------------------------------------------------------
(* TraceBuilder and LLMOSSDKClient.execute_learner_mode (sdk_client.py) *)

\* What the SDK did during one execute_learner_mode call: whether a
\* ResultMessage arrived, the total_cost_usd it carried, whether it carried
\* an error, and whether an exception was raised.
Outcomes ==
    {[got_result |-> FALSE, cost |-> 0, msg_error |-> FALSE, exc |-> e] :
        e \in BOOLEAN}
    \cup
    {[got_result |-> TRUE, cost |-> c, msg_error |-> m, exc |-> e] :
        c \in AdapterCosts, m \in BOOLEAN, e \in BOOLEAN}

\* The messages of a stream as TraceBuilder.add_message tells them apart:
\* an AssistantMessage with its content blocks, each a TextBlock or a
\* ToolUseBlock with the name of its tool, or a ResultMessage
ToolNames == {"Read", "Write"}

Blocks == {"text"} \cup ToolNames

SeqsUpTo(S, n) == UNION {[1..k -> S] : k \in 0..n}

Messages ==
    {[kind |-> "assistant", content |-> c] : c \in SeqsUpTo(Blocks, MaxBlocks)}
    \cup {[kind |-> "result", content |-> <<>>]}

\* variant: every use of a tool is listed
AddToolUseAlways(tools_used, name) == Append(tools_used, name)

\* add_message, for a ToolUseBlock: a name is appended unless it is listed
AddToolUse(tools_used, name) ==
    IF \E i \in DOMAIN tools_used : tools_used[i] = name THEN tools_used
    ELSE Append(tools_used, name)

\* add_message, for the content of an AssistantMessage
RECURSIVE AddBlocks(_, _)
AddBlocks(tools_used, content) ==
    IF content = <<>> THEN tools_used
    ELSE AddBlocks(IF Head(content) \in ToolNames
                   THEN AddToolUse(tools_used, Head(content))
                   ELSE tools_used,
                   Tail(content))

\* TraceBuilder.add_message: tools_used after the message
AddMessage(sdk, tools_used, message) ==
    IF ~sdk THEN tools_used
    ELSE IF message.kind = "assistant"
    THEN AddBlocks(tools_used, message.content)
    ELSE tools_used

\* TraceBuilder.success after the stream
BuilderSuccess(o) == ~o.exc /\ ~(o.got_result /\ o.msg_error)

\* TraceBuilder.to_trace(goal_signature)
ToTrace(goal_text, o) ==
    [stored |-> TRUE, goal_text |-> goal_text,
     success_rating |-> IF BuilderSuccess(o) THEN 100 ELSE 50,
     usage_count |-> 1, mode |-> "LEARNER", tool |-> "none",
     error_notes |-> o.exc]

\* the result dictionary of execute_learner_mode
NoResult == [kind |-> "none", success |-> FALSE, mode |-> "none", cost |-> 0,
             error |-> "none", tool |-> "none"]

LearnerModeResult(o) ==
    [kind |-> "returned", success |-> o.got_result, mode |-> "LEARNER",
     cost |-> IF o.got_result THEN o.cost ELSE 0,
     error |-> IF o.exc THEN "EXCEPTION" ELSE "none", tool |-> "none"]

(* Cortex (interfaces/cortex.py): learn returns a fresh trace *)
CortexLearn(goal) ==
    [stored |-> TRUE, goal_text |-> goal, success_rating |-> 100,
     usage_count |-> 1, mode |-> "LEARNER", tool |-> "none",
     error_notes |-> FALSE]

-----------------------------------------------------------------------------
(* Dispatcher (interfaces/dispatcher.py): what the code computes *)

NoDispatch == [goal |-> "none", req |-> "none", max_cost |-> 0,
               mode |-> "none", sig |-> "none", confidence |-> 0,
               fresh |-> FALSE, llm_calls |-> 0, decided |-> "none"]

\* what the caller knows of the dispatch it made before
NoPrev == [goal |-> "none", auto |-> FALSE, success |-> FALSE,
           fresh |-> FALSE]

NoOrch == [plan |-> <<>>, idx |-> 0, total_cost |-> 0, response |-> "none",
           planning_cost |-> 0, agent_spec |-> "none",
           steps_completed |-> 0, total_steps |-> 0, cost_usd |-> 0]

\* Dispatcher.dispatch: the branch a mode is routed to
Route(mode) ==
    CASE mode = "CRYSTALLIZED" -> "c_find"
      [] mode = "ORCHESTRATOR" -> "o_check"
      [] mode = "FOLLOWER" -> "f_find"
      [] mode = "MIXED" -> "m_find"
      [] OTHER -> "l_check"

\* the mode of the branch a task stands in
BranchMode(at) ==
    CASE at \in {"c_find"} -> "CRYSTALLIZED"
      [] at \in {"f_find", "f_follow"} -> "FOLLOWER"
      [] at \in {"m_find", "m_exec"} -> "MIXED"
      [] at \in {"l_check", "l_exec"} -> "LEARNER"
      [] at \in {"o_check", "o_plan", "o_step", "o_delegate", "o_finish"}
             -> "ORCHESTRATOR"
      [] OTHER -> "none"

Failure(mode, error) ==
    [kind |-> "returned", success |-> FALSE, mode |-> mode, cost |-> 0,
     error |-> error, tool |-> "none"]

\* deduct raised LowBatteryError and nothing in dispatch catches it
Raised == [kind |-> "raised", success |-> FALSE, mode |-> "none", cost |-> 0,
           error |-> "LOW_BATTERY", tool |-> "none"]

\* the phases a paid branch goes through on entry: the budget check, and
\* the start of the execution when the check passed
LearnerGate(bal, max_cost) ==
    IF CheckBudget(bal, max_cost) THEN <<"CHECK_OK", "EXEC">>
    ELSE <<"CHECK_FAIL">>

\* variant: the mixed execution starts without a budget check
MixedGateExecFirst(bal, max_cost) == <<"EXEC">>

MixedGate(bal, max_cost) ==
    IF CheckBudget(bal, max_cost) THEN <<"CHECK_OK", "EXEC">>
    ELSE <<"CHECK_FAIL">>

OrchestratorGate(bal, max_cost) ==
    IF CheckBudget(bal, max_cost) THEN <<"CHECK_OK", "EXEC">>
    ELSE <<"CHECK_FAIL">>

\* the structured errors returned when the budget check raised
LearnerBudgetError == Failure("LEARNER", "LOW_BATTERY")

MixedBudgetError == Failure("MIXED", "LOW_BATTERY")

\* variant: the orchestrator's error carries the learner's mode
OrchestratorBudgetErrorCopied == Failure("LEARNER", "LOW_BATTERY")

OrchestratorBudgetError == Failure("ORCHESTRATOR", "LOW_BATTERY")

\* the deduction after a paid branch
\* variant: the reported cost is subtracted whatever the balance is
LearnerSettleUnguarded(bal, log, res) ==
    IF res.success
    THEN [ok |-> TRUE, balance |-> bal - res.cost,
          log |-> Append(log, [cost |-> res.cost, reason |-> "Learner"])]
    ELSE NoCharge(bal, log)

LearnerSettle(bal, log, res) ==
    IF res.success THEN Deduct(bal, log, res.cost, "Learner")
    ELSE NoCharge(bal, log)

MixedSettle(bal, log, res) ==
    IF res.success THEN Deduct(bal, log, res.cost, "Mixed")
    ELSE NoCharge(bal, log)

OrchestratorSettle(bal, log, res) ==
    IF res.success THEN Deduct(bal, log, res.cost, "Orchestrator")
    ELSE NoCharge(bal, log)

\* variant: the estimate is subtracted and no entry is logged
CortexLearnerSettleUnlogged(bal, log) ==
    IF bal - EstimatedLearnerCost < 0 THEN [ok |-> FALSE, balance |-> bal,
                                            log |-> log]
    ELSE [ok |-> TRUE, balance |-> bal - EstimatedLearnerCost, log |-> log]

CortexLearnerSettle(bal, log) ==
    Deduct(bal, log, EstimatedLearnerCost, "Learner")

CortexMixedSettle(bal, log) ==
    Deduct(bal, log, EstimatedMixedCost, "Mixed")

\* variant: the follower accepts what the mixed mode accepts
FollowerLookupLoose(store, goal) ==
    LET r == FindTraceWithLLM(store, goal, MixedMinConfidence)
    IN  IF r.found THEN r ELSE FindTrace(store, goal)

\* _dispatch_follower: the trace to replay
FollowerLookup(store, goal) ==
    LET r == FindTraceWithLLM(store, goal, FollowerMinConfidence)
    IN  IF r.found THEN r ELSE FindTrace(store, goal)

\* _dispatch_follower: the result when no trace was found
FollowerNoTrace == Failure("FOLLOWER", "NO_TRACE")

\* variant: the replay is reported at the learner's estimate
FollowerResultCharged(ok) ==
    [kind |-> "returned", success |-> ok, mode |-> "FOLLOWER",
     cost |-> EstimatedLearnerCost, error |-> "none", tool |-> "none"]

\* _dispatch_follower: the result after cortex.follow returned ok
FollowerResult(ok) ==
    [kind |-> "returned", success |-> ok, mode |-> "FOLLOWER", cost |-> 0,
     error |-> "none", tool |-> "none"]

\* _dispatch_mixed and _dispatch_crystallized: the trace to use
MixedLookup(store, goal) == FindTraceWithLLM(store, goal, MixedMinConfidence)

CrystallizedLookup(store, goal) ==
    FindTraceWithLLM(store, goal, CrystallizedMinConfidence)

Last(seq) == seq[Len(seq)]

SettlePhases(res, st) ==
    IF ~res.success THEN <<>>
    ELSE IF st.ok THEN <<"DEDUCT">> ELSE <<"DEDUCT_REFUSED">>

-----------------------------------------------------------------------------
(* Initial state: a booted OS with its budget, and a trace store that is   *)
(* empty or holds one trace from an earlier session.                       *)

EmptyStore == [s \in Sigs |-> EmptySlot]

SeedTrace(text, tool) ==
    [stored |-> TRUE, goal_text |-> text, success_rating |-> SeedSuccessRating,
     usage_count |-> SeedUsageCount, mode |-> "LEARNER", tool |-> tool,
     error_notes |-> FALSE]

InitialStores ==
    {EmptyStore,
     [EmptyStore EXCEPT !["s_ga"] = SeedTrace("ga", "none")],
     [EmptyStore EXCEPT !["s_ga"] = SeedTrace("ga", "is_prime")],
     [EmptyStore EXCEPT !["s_gp"] = SeedTrace("gp", "none")]}

\* PluginLoader.tools after load_plugins: the names of the loaded tools
RegisteredTools == {"is_prime"}

\* stores left by an earlier session in which a trace was crystallized; the
\* plugin of "retired_tool" is no longer in the plugin directory
CrystallizedStores ==
    {[EmptyStore EXCEPT !["s_ga"] = SeedTrace("ga", "is_prime")],
     [EmptyStore EXCEPT !["s_ga"] = SeedTrace("ga", "retired_tool")]}

NoProbe == [op |-> "none"]

\* Dispatcher.__init__: no cortex yet
NoCortex == [state |-> "none", initialized |-> 0]

\* SystemAgent._ensure_system_agent_registered, on the registry the
\* dispatcher filled from the agent factory
EnsureSystemAgentRegistered(registry) ==
    IF "system-agent" \in registry THEN registry
    ELSE registry \cup {"system-agent"}

InitDispatcherIn(stores, registries) ==
    /\ balance = InitialBudget
    /\ spend_log = <<>>
    /\ traces \in stores
    /\ sdk_available \in BOOLEAN
    /\ pc = [p \in Procs |-> "idle"]
    /\ d = [p \in Procs |-> NoDispatch]
    /\ result = [p \in Procs |-> NoResult]
    /\ hist = [p \in Procs |-> <<>>]
    /\ paid = [p \in Procs |-> 0]
    /\ orch = [p \in Procs |-> NoOrch]
    /\ started = 0
    /\ prev = NoPrev
    /\ agents \in registries
    /\ cortex = NoCortex

\* the agent factory of the workspace lists no agent of its own, and the
\* OS is booted
InitDispatcherWith(stores) ==
    /\ InitDispatcherIn(stores, {EnsureSystemAgentRegistered({})})
    /\ running = TRUE

InitDispatcher == InitDispatcherWith(InitialStores)

Init == InitDispatcher /\ probe = NoProbe

InitCrystallized == InitDispatcherWith(CrystallizedStores) /\ probe = NoProbe

-----------------------------------------------------------------------------
(* Dispatcher.dispatch *)

\* a dispatch call is made; a forced mode is routed at once
Dispatch(p, goal, mode, max_cost) ==
    /\ pc[p] = "idle"
    /\ started < MaxDispatches
    /\ started' = started + 1
    /\ d' = [d EXCEPT ![p] = [goal |-> goal, req |-> mode,
                              max_cost |-> max_cost,
                              mode |-> IF mode = "AUTO" THEN "none" ELSE mode,
                              sig |-> "none", confidence |-> 0,
                              fresh |-> traces = EmptyStore,
                              llm_calls |-> 0, decided |-> "none"]]
    /\ pc' = [pc EXCEPT ![p] = IF mode = "AUTO" THEN "decide" ELSE Route(mode)]
    /\ UNCHANGED <<balance, spend_log, traces, sdk_available, result, hist,
                   paid, orch, prev, probe, agents, cortex,
                   running>>

\* the trace of the strategy's decision: the match its mode rests on
DecisionTrace(store, goal) ==
    LET r == FindTraceWithLLM(store, goal, MixedMinConfidence)
    IN  IF r.found THEN r.sig ELSE "none"

\* _determine_mode: the strategy decides, then the mode is routed; of the
\* decision only the mode is returned
DetermineMode(p) ==
    /\ pc[p] = "decide"
    /\ LET mode == AutoMode(traces, d[p].goal)
       IN  /\ d' = [d EXCEPT ![p].mode = mode,
                                 ![p].llm_calls =
                                     @ + LLMCalls(traces, d[p].goal),
                                 ![p].decided =
                                     DecisionTrace(traces, d[p].goal)]
           /\ pc' = [pc EXCEPT ![p] = Route(mode)]
    /\ hist' = [hist EXCEPT ![p] = Append(@, "DECIDE")]
    /\ UNCHANGED <<balance, spend_log, traces, sdk_available, result, paid,
                   orch, started, prev, probe, agents, cortex,
                   running>>

\* _dispatch_crystallized
DispatchCrystallized(p) ==
    /\ pc[p] = "c_find"
    /\ LET r == CrystallizedLookup(traces, d[p].goal)
           calls == d[p].llm_calls + LLMCalls(traces, d[p].goal)
       IN  IF ~r.found
           THEN /\ result' = [result EXCEPT ![p] =
                                 Failure("CRYSTALLIZED", "NO_TRACE")]
                /\ d' = [d EXCEPT ![p].llm_calls = calls]
                /\ UNCHANGED traces
           ELSE IF traces[r.sig].tool = "none"
           THEN /\ result' = [result EXCEPT ![p] =
                                 Failure("CRYSTALLIZED", "NOT_CRYSTALLIZED")]
                /\ d' = [d EXCEPT ![p].llm_calls = calls]
                /\ UNCHANGED traces
           ELSE /\ traces' = UpdateUsage(traces, r.sig)
                /\ d' = [d EXCEPT ![p].sig = r.sig,
                                  ![p].confidence = r.confidence,
                                  ![p].llm_calls = calls]
                /\ result' = [result EXCEPT ![p] =
                                 [kind |-> "returned", success |-> TRUE,
                                  mode |-> "CRYSTALLIZED", cost |-> 0,
                                  error |-> "none",
                                  tool |-> traces[r.sig].tool]]
    /\ pc' = [pc EXCEPT ![p] = "done"]
    /\ UNCHANGED <<balance, spend_log, sdk_available, hist, paid, orch,
                   started, prev, probe, agents, cortex,
                   running>>

\* _dispatch_follower, up to the replay
DispatchFollower(p) ==
    /\ pc[p] = "f_find"
    /\ LET r == FollowerLookup(traces, d[p].goal)
           calls == d[p].llm_calls + LLMCalls(traces, d[p].goal)
       IN  IF ~r.found
           THEN /\ result' = [result EXCEPT ![p] = FollowerNoTrace]
                /\ pc' = [pc EXCEPT ![p] = "done"]
                /\ d' = [d EXCEPT ![p].llm_calls = calls]
                /\ UNCHANGED hist
           ELSE /\ d' = [d EXCEPT ![p].sig = r.sig,
                                  ![p].confidence = r.confidence,
                                  ![p].llm_calls = calls]
                /\ pc' = [pc EXCEPT ![p] = "f_follow"]
                /\ hist' = [hist EXCEPT ![p] = Append(@, "REPLAY")]
                /\ UNCHANGED result
    /\ UNCHANGED <<balance, spend_log, traces, sdk_available, paid, orch,
                   started, prev, probe, agents, cortex,
                   running>>

\* _ensure_cortex run to its end: a cortex that was not there is made and
\* initialized
EnsuredCortex(c) ==
    IF c.state = "none"
    THEN [state |-> "ready", initialized |-> c.initialized + 1]
    ELSE c

\* _dispatch_follower after cortex.follow returned: the result, and the
\* usage of the trace
FollowReturned(p) ==
    /\ \E ok \in BOOLEAN :
          result' = [result EXCEPT ![p] = FollowerResult(ok)]
    /\ traces' = UpdateUsage(traces, d[p].sig)
    /\ pc' = [pc EXCEPT ![p] = "done"]
    /\ UNCHANGED <<balance, spend_log, sdk_available, d, hist, paid, orch,
                   started, prev, probe, agents, running>>

\* _dispatch_follower: the cortex is ensured and cortex.follow returned
FollowerReplayed(p) ==
    /\ pc[p] = "f_follow"
    /\ cortex' = EnsuredCortex(cortex)
    /\ FollowReturned(p)

\* _dispatch_learner: the budget check, then the execution starts
LearnerEnter(p) ==
    /\ pc[p] = "l_check"
    /\ LET phases == LearnerGate(balance, d[p].max_cost)
       IN  /\ hist' = [hist EXCEPT ![p] = @ \o phases]
           /\ IF Last(phases) = "CHECK_FAIL"
              THEN /\ result' = [result EXCEPT ![p] = LearnerBudgetError]
                   /\ pc' = [pc EXCEPT ![p] = "done"]
              ELSE /\ pc' = [pc EXCEPT ![p] = "l_exec"]
                   /\ UNCHANGED result
    /\ UNCHANGED <<balance, spend_log, traces, sdk_available, d, paid, orch,
                   started, prev, probe, agents, cortex,
                   running>>

\* the execution of a learner-style call returned: with the SDK client,
\* execute_learner_mode saved its trace and the dispatcher deducts the cost
\* of a successful result; without it, cortex.learn returned a trace, the
\* dispatcher saves it and deducts the estimate
SdkCompleted(p, goal_text, o, mode) ==
    LET res == [LearnerModeResult(o) EXCEPT !.mode = mode]
        st == IF mode = "MIXED" THEN MixedSettle(balance, spend_log, res)
              ELSE LearnerSettle(balance, spend_log, res)
    IN  /\ traces' = SaveTrace(traces, GoalSignature(d[p].goal),
                               ToTrace(goal_text, o))
        /\ balance' = st.balance
        /\ spend_log' = st.log
        /\ paid' = [paid EXCEPT ![p] = @ + res.cost]
        /\ result' = [result EXCEPT ![p] = IF st.ok THEN res ELSE Raised]
        /\ hist' = [hist EXCEPT ![p] =
                       @ \o <<"PERSIST">> \o SettlePhases(res, st)]
        /\ UNCHANGED cortex

CortexCompleted(p, estimate, mode) ==
    LET res == [kind |-> "returned", success |-> TRUE, mode |-> mode,
                cost |-> estimate, error |-> "none", tool |-> "none"]
        st == IF mode = "MIXED" THEN CortexMixedSettle(balance, spend_log)
              ELSE CortexLearnerSettle(balance, spend_log)
    IN  /\ traces' = SaveTrace(traces, GoalSignature(d[p].goal),
                               CortexLearn(d[p].goal))
        /\ balance' = st.balance
        /\ spend_log' = st.log
        /\ paid' = [paid EXCEPT ![p] = @ + estimate]
        /\ result' = [result EXCEPT ![p] = IF st.ok THEN res ELSE Raised]
        /\ hist' = [hist EXCEPT ![p] =
                       @ \o <<"PERSIST">> \o SettlePhases(res, st)]
        /\ cortex' = EnsuredCortex(cortex)

LearnerCompleted(p) ==
    /\ pc[p] = "l_exec"
    /\ IF sdk_available
       THEN \E o \in Outcomes : SdkCompleted(p, d[p].goal, o, "LEARNER")
       ELSE CortexCompleted(p, EstimatedLearnerCost, "LEARNER")
    /\ pc' = [pc EXCEPT ![p] = "done"]
    /\ UNCHANGED <<sdk_available, d, orch, started, prev, probe, agents,
                   running>>

\* variant: without a trace the learner's execution starts at once
MixedFallbackUnchecked == "l_exec"

\* _dispatch_mixed without a trace: _dispatch_learner is called, from its
\* start
MixedFallback == "l_check"

\* _dispatch_mixed: the lookup, then the budget check, then the execution
\* starts; without a trace it falls back to _dispatch_learner
DispatchMixed(p) ==
    /\ pc[p] = "m_find"
    /\ LET r == MixedLookup(traces, d[p].goal)
           phases == MixedGate(balance, d[p].max_cost)
           calls == d[p].llm_calls + LLMCalls(traces, d[p].goal)
       IN  IF ~r.found
           THEN /\ pc' = [pc EXCEPT ![p] = MixedFallback]
                /\ d' = [d EXCEPT ![p].llm_calls = calls]
                /\ UNCHANGED <<hist, result>>
           ELSE /\ d' = [d EXCEPT ![p].sig = r.sig,
                                  ![p].confidence = r.confidence,
                                  ![p].llm_calls = calls]
                /\ hist' = [hist EXCEPT ![p] = @ \o phases]
                /\ IF Last(phases) = "CHECK_FAIL"
                   THEN /\ result' = [result EXCEPT ![p] = MixedBudgetError]
                        /\ pc' = [pc EXCEPT ![p] = "done"]
                   ELSE /\ pc' = [pc EXCEPT ![p] = "m_exec"]
                        /\ UNCHANGED result
    /\ UNCHANGED <<balance, spend_log, traces, sdk_available, paid, orch,
                   started, prev, probe, agents, cortex,
                   running>>

MixedCompleted(p) ==
    /\ pc[p] = "m_exec"
    /\ IF sdk_available
       THEN \E o \in Outcomes :
                SdkCompleted(p, FewShotText[d[p].goal], o, "MIXED")
       ELSE CortexCompleted(p, EstimatedMixedCost, "MIXED")
    /\ pc' = [pc EXCEPT ![p] = "done"]
    /\ UNCHANGED <<sdk_available, d, orch, started, prev, probe, agents,
                   running>>

-----------------------------------------------------------------------------
(* _dispatch_orchestrator and SystemAgent.orchestrate *)

\* orchestrate, before its try block: the project and the state manager
\* are set up and TASK_STARTED is published
OrchestrateStartPhases == <<"TASK_STARTED">>

\* variant: the completion is published before the state is marked complete
CompletionPhasesEmitFirst == <<"TASK_COMPLETED", "STATE_COMPLETE">>

\* orchestrate, after the loop: mark_execution_complete(success=True), then
\* TASK_COMPLETED is published
CompletionPhases == <<"STATE_COMPLETE", "TASK_COMPLETED">>

\* the handler of orchestrate: mark_execution_complete(success=False)
FailurePhases == <<"STATE_COMPLETE">>

OrchestratorEnter(p) ==
    /\ pc[p] = "o_check"
    /\ LET phases == OrchestratorGate(balance, d[p].max_cost)
       IN  IF Last(phases) = "CHECK_FAIL"
           THEN /\ hist' = [hist EXCEPT ![p] = @ \o phases]
                /\ result' = [result EXCEPT ![p] = OrchestratorBudgetError]
                /\ pc' = [pc EXCEPT ![p] = "done"]
           ELSE /\ hist' = [hist EXCEPT ![p] =
                               @ \o phases \o OrchestrateStartPhases]
                /\ pc' = [pc EXCEPT ![p] = "o_plan"]
                /\ UNCHANGED result
    /\ orch' = [orch EXCEPT ![p] = NoOrch]
    /\ UNCHANGED <<balance, spend_log, traces, sdk_available, d, paid,
                   started, prev, probe, agents, cortex,
                   running>>

\* the result of orchestrate when an exception reached its handler, as
\* the dispatcher returns it
OrchestrationFailed ==
    [kind |-> "returned", success |-> FALSE, mode |-> "ORCHESTRATOR",
     cost |-> 0, error |-> "none", tool |-> "none"]

\* What the planner answered: a JSON plan of n well-formed steps, an answer
\* without JSON or without steps, or a JSON plan with a step that lacks
\* its "number" or "description"
PlannerResponses ==
    {[kind |-> "plan", n |-> n] : n \in 1..MaxSteps}
    \cup {[kind |-> "no_plan", n |-> 0], [kind |-> "bad_step", n |-> 1]}

\* the step _decompose_goal builds from one well-formed entry
PlannedStep(i) ==
    [number |-> i, description |-> "sub", agent |-> "specialist",
     status |-> "pending", error |-> "none"]

\* the fallback step of _decompose_goal
FallbackStep(goal) ==
    [number |-> 1, description |-> goal, agent |-> "system-agent",
     status |-> "pending", error |-> "none"]

\* _decompose_goal: the plan, or the exception that leaves it
DecomposeGoal(goal, sdk, resp) ==
    IF ~sdk THEN [raised |-> TRUE, steps |-> <<>>]
    ELSE IF resp.kind = "bad_step" THEN [raised |-> TRUE, steps |-> <<>>]
    ELSE IF resp.kind = "plan"
    THEN [raised |-> FALSE, steps |-> [i \in 1..resp.n |-> PlannedStep(i)]]
    ELSE [raised |-> FALSE, steps |-> <<FallbackStep(goal)>>]

\* orchestrate up to the plan: _decompose_goal returned the plan, or raised
\* and the handler of orchestrate returns the failure.  The planning call,
\* when it was made, cost what the SDK reported for it.
OrchestratorPlanned(p) ==
    /\ pc[p] = "o_plan"
    /\ \E resp \in PlannerResponses, c \in AdapterCosts :
          LET r == DecomposeGoal(d[p].goal, sdk_available, resp)
          IN  IF r.raised
              THEN /\ result' = [result EXCEPT ![p] = OrchestrationFailed]
                   /\ pc' = [pc EXCEPT ![p] = "done"]
                   /\ orch' = [orch EXCEPT
                                 ![p].response =
                                     IF sdk_available THEN resp.kind
                                     ELSE "none",
                                 ![p].planning_cost =
                                     IF sdk_available THEN c ELSE 0]
                   /\ hist' = [hist EXCEPT ![p] = @ \o FailurePhases]
              ELSE /\ orch' = [orch EXCEPT ![p] =
                                   [plan |-> r.steps, idx |-> 1,
                                    total_cost |-> 0,
                                    response |-> resp.kind,
                                    planning_cost |-> c,
                                    agent_spec |-> "none",
                                    steps_completed |-> 0,
                                    total_steps |-> 0, cost_usd |-> 0]]
                   /\ pc' = [pc EXCEPT ![p] = "o_step"]
                   /\ UNCHANGED <<result, hist>>
    /\ UNCHANGED <<balance, spend_log, traces, sdk_available, d, paid,
                   started, prev, probe, agents, cortex,
                   running>>

\* variant: an agent name that is not registered resolves to nothing
ResolveAgentNoFallback(registry, name) ==
    IF name \in registry THEN name ELSE "none"

\* _execute_step: the agent spec registered under the step's agent name,
\* else the one registered as system-agent, else None
ResolveAgent(registry, name) ==
    IF name \in registry THEN name
    ELSE IF "system-agent" \in registry THEN "system-agent"
    ELSE "none"

\* the loop of orchestrate reaches a step: it is marked in_progress, and
\* either the budget is used up and the loop ends, or the agent spec is
\* resolved and the step is delegated; without an agent spec
\* _delegate_to_agent raises before its try block and the handler of
\* orchestrate returns the failure
OrchestratorStepBegin(p) ==
    /\ pc[p] = "o_step"
    /\ LET i == orch[p].idx
           agent_spec == ResolveAgent(agents, orch[p].plan[i].agent)
       IN  IF orch[p].total_cost >= d[p].max_cost
           THEN /\ orch' = [orch EXCEPT ![p].plan[i].status = "in_progress"]
                /\ pc' = [pc EXCEPT ![p] = "o_finish"]
                /\ hist' = [hist EXCEPT ![p] = Append(@, "BUDGET_EXCEEDED")]
                /\ UNCHANGED result
           ELSE IF agent_spec = "none"
           THEN /\ orch' = [orch EXCEPT
                                 ![p].plan[i].status = "in_progress",
                                 ![p].steps_completed = 0,
                                 ![p].total_steps = Len(orch[p].plan),
                                 ![p].cost_usd = 0]
                /\ pc' = [pc EXCEPT ![p] = "done"]
                /\ hist' = [hist EXCEPT ![p] = @ \o FailurePhases]
                /\ result' = [result EXCEPT ![p] = OrchestrationFailed]
           ELSE /\ orch' = [orch EXCEPT ![p].plan[i].status = "in_progress",
                                        ![p].agent_spec = agent_spec]
                /\ pc' = [pc EXCEPT ![p] = "o_delegate"]
                /\ hist' = [hist EXCEPT ![p] = Append(@, "EXEC")]
                /\ UNCHANGED result
    /\ UNCHANGED <<balance, spend_log, traces, sdk_available, d, paid,
                   started, prev, probe, agents, cortex,
                   running>>

\* variant: the cost of a failed step is counted as well
StepCostCountedAlways(ok, cost) == cost

\* the cost orchestrate adds to total_cost for a step result
StepCostCounted(ok, cost) == IF ok THEN cost ELSE 0

\* variant: a failed step is put back for another attempt
StepOutcomeStatusReset(ok) == IF ok THEN "completed" ELSE "pending"

\* variant: a failed step is left as it was
StepOutcomeStatusKept(ok) == IF ok THEN "completed" ELSE "in_progress"

\* the status orchestrate gives a step for its result
StepOutcomeStatus(ok) == IF ok THEN "completed" ELSE "failed"

\* the error orchestrate records on a step: the message of the exception
\* _delegate_to_agent caught
StepOutcomeError(ok) == IF ok THEN "none" ELSE "EXCEPTION"

\* _delegate_to_agent returned after k messages, with or without success
OrchestratorStepEnd(p) ==
    /\ pc[p] = "o_delegate"
    /\ \E ok \in BOOLEAN, k \in 0..MaxMessages :
          LET cost == k * PerMessageCost
              i == orch[p].idx
          IN  /\ orch' = [orch EXCEPT
                            ![p].plan[i].status = StepOutcomeStatus(ok),
                            ![p].plan[i].error = StepOutcomeError(ok),
                            ![p].total_cost = @ + StepCostCounted(ok, cost),
                            ![p].idx = i + 1,
                            ![p].agent_spec = "none"]
              /\ paid' = [paid EXCEPT ![p] = @ + cost]
              /\ pc' = [pc EXCEPT ![p] =
                           IF i + 1 > Len(orch[p].plan) THEN "o_finish"
                           ELSE "o_step"]
    /\ UNCHANGED <<balance, spend_log, traces, sdk_available, d, result, hist,
                   started, prev, probe, agents, cortex,
                   running>>

\* StateManager.get_execution_summary: the counts of the plan's steps
ExecutionSummary(plan) ==
    [completed_steps |->
        Cardinality({i \in DOMAIN plan : plan[i].status = "completed"}),
     total_steps |-> Len(plan)]

\* orchestrate returned its result, with the counts of the summary and
\* total_cost as cost_usd, and the dispatcher deducts its cost
OrchestratorFinish(p) ==
    /\ pc[p] = "o_finish"
    /\ LET res == [kind |-> "returned", success |-> TRUE,
                   mode |-> "ORCHESTRATOR", cost |-> orch[p].total_cost,
                   error |-> "none", tool |-> "none"]
           st == OrchestratorSettle(balance, spend_log, res)
       IN  /\ balance' = st.balance
           /\ spend_log' = st.log
           /\ result' = [result EXCEPT ![p] = IF st.ok THEN res ELSE Raised]
           /\ hist' = [hist EXCEPT ![p] =
                          @ \o CompletionPhases \o SettlePhases(res, st)]
    /\ orch' = [orch EXCEPT
                  ![p].steps_completed =
                      ExecutionSummary(orch[p].plan).completed_steps,
                  ![p].total_steps = ExecutionSummary(orch[p].plan).total_steps,
                  ![p].cost_usd = orch[p].total_cost]
    /\ pc' = [pc EXCEPT ![p] = "done"]
    /\ UNCHANGED <<traces, sdk_available, d, paid, started, prev, probe,
                   agents, cortex,
                   running>>

\* the caller has the result; the task is free for the next dispatch
Return(p) ==
    /\ pc[p] = "done"
    /\ pc' = [pc EXCEPT ![p] = "idle"]
    /\ d' = [d EXCEPT ![p] = NoDispatch]
    /\ result' = [result EXCEPT ![p] = NoResult]
    /\ hist' = [hist EXCEPT ![p] = <<>>]
    /\ paid' = [paid EXCEPT ![p] = 0]
    /\ orch' = [orch EXCEPT ![p] = NoOrch]
    /\ prev' = [goal |-> d[p].goal, auto |-> d[p].req = "AUTO",
                success |-> result[p].kind = "returned" /\ result[p].success,
                fresh |-> d[p].fresh]
    /\ UNCHANGED <<balance, spend_log, traces, sdk_available, started,
                   probe, agents, cortex,
                   running>>

\* one step of the dispatch task p
TaskStep(p) ==
    \/ \E goal \in Goals, mode \in Modes, max_cost \in MaxCostChoices :
          Dispatch(p, goal, mode, max_cost)
    \/ DetermineMode(p)
    \/ DispatchCrystallized(p)
    \/ DispatchFollower(p)
    \/ FollowerReplayed(p)
    \/ DispatchMixed(p)
    \/ MixedCompleted(p)
    \/ LearnerEnter(p)
    \/ LearnerCompleted(p)
    \/ OrchestratorEnter(p)
    \/ OrchestratorPlanned(p)
    \/ OrchestratorStepBegin(p)
    \/ OrchestratorStepEnd(p)
    \/ OrchestratorFinish(p)
    \/ Return(p)

\* boot.py's session: each execute is awaited before the next goal is read
Next == TaskStep("d1")

Spec == Init /\ [][Next]_vars

\* a server's session: every request handler awaits its own execute, so
\* dispatches overlap at their suspension points
NextConcurrent == \E p \in Procs : TaskStep(p)

SpecConcurrent == Init /\ [][NextConcurrent]_vars

\* the mode hint computed on its own, for every confidence in hundredths
Confidences == 0..100

InitModeHint ==
    /\ InitDispatcher
    /\ probe \in {[op |-> "mode_hint", found |-> f, confidence |-> c,
                    out |-> "none"] : f \in BOOLEAN, c \in Confidences}

ApplyModeHint ==
    /\ probe.op = "mode_hint"
    /\ probe.out = "none"
    /\ probe' = [probe EXCEPT !.out = ModeHint(probe.found, probe.confidence)]
    /\ UNCHANGED dvars

NextModeHint == ApplyModeHint

SpecModeHint == InitModeHint /\ [][NextModeHint]_vars

\* a TraceBuilder on its own: it is made, and the messages of a stream are
\* fed to it one after the other
InitTraceBuilder ==
    /\ InitDispatcherWith({EmptyStore})
    /\ probe \in {[op |-> "trace_builder", stream |-> s, fed |-> 0,
                    tools_used |-> <<>>] : s \in SeqsUpTo(Messages, MaxStream)}

FeedMessage ==
    /\ probe.op = "trace_builder"
    /\ probe.fed < Len(probe.stream)
    /\ probe' = [probe EXCEPT
                    !.fed = @ + 1,
                    !.tools_used = AddMessage(sdk_available, @,
                                              probe.stream[probe.fed + 1])]
    /\ UNCHANGED dvars

NextTraceBuilder == FeedMessage

SpecTraceBuilder == InitTraceBuilder /\ [][NextTraceBuilder]_vars

\* a session that starts with a crystallized trace in its store
SpecCrystallized == InitCrystallized /\ [][Next]_vars

\* A session of orchestrations on a registry that changes: the agent
\* factory lists the agents of the workspace when the orchestrator is
\* made, and agents created on demand are registered while it runs.
AgentNames == {"specialist", "system-agent"}

FactoryAgents == {{}, {"specialist"}}

InitAgents ==
    /\ InitDispatcherIn({EmptyStore},
                        {EnsureSystemAgentRegistered(f) : f \in FactoryAgents})
    /\ running = TRUE
    /\ probe = NoProbe

\* create_agent_on_demand: the designed agent is registered under its name
RegisterAgent(name) ==
    /\ agents' = agents \cup {name}
    /\ UNCHANGED <<balance, spend_log, traces, sdk_available, pc, d, result,
                   hist, paid, orch, started, prev, probe, cortex, running>>

NextAgents ==
    \/ \E goal \in Goals, max_cost \in MaxCostChoices :
          Dispatch("d1", goal, "ORCHESTRATOR", max_cost)
    \/ OrchestratorEnter("d1")
    \/ OrchestratorPlanned("d1")
    \/ OrchestratorStepBegin("d1")
    \/ OrchestratorStepEnd("d1")
    \/ OrchestratorFinish("d1")
    \/ Return("d1")
    \/ \E name \in AgentNames : RegisterAgent(name)

SpecAgents == InitAgents /\ [][NextAgents]_vars

\* A session whose dispatches can be cancelled: a task that waits at a
\* suspension point receives CancelledError there.  No handler of the
\* dispatcher, of the SDK client or of the orchestrator catches it (they
\* catch Exception), so it leaves dispatch.
SuspensionPoints == {"f_follow", "l_exec", "m_exec", "o_plan", "o_delegate"}

Cancelled == [kind |-> "raised", success |-> FALSE, mode |-> "none",
              cost |-> 0, error |-> "CANCELLED", tool |-> "none"]

Cancel(p) ==
    /\ pc[p] \in SuspensionPoints
    /\ result' = [result EXCEPT ![p] = Cancelled]
    /\ pc' = [pc EXCEPT ![p] = "done"]
    /\ hist' = [hist EXCEPT ![p] = Append(@, "CANCEL")]
    /\ UNCHANGED <<balance, spend_log, traces, sdk_available, d, paid, orch,
                   started, prev, probe, agents, cortex,
                   running>>

NextCancellable == TaskStep("d1") \/ Cancel("d1")

SpecCancellable == Init /\ [][NextCancellable]_vars

\* A server's session of replays, with _ensure_cortex taken step by step:
\* it assigns the new Cortex to self.cortex and then awaits its initialize,
\* and a task that finds self.cortex set goes on to cortex.follow at once.
EnsureCortex(p) ==
    /\ pc[p] = "f_follow"
    /\ IF cortex.state = "none"
       THEN /\ cortex' = [cortex EXCEPT !.state = "initializing"]
            /\ pc' = [pc EXCEPT ![p] = "f_initialize"]
       ELSE /\ pc' = [pc EXCEPT ![p] = "f_call"]
            /\ UNCHANGED cortex
    /\ UNCHANGED <<balance, spend_log, traces, sdk_available, d, result, hist,
                   paid, orch, started, prev, probe, agents, running>>

\* cortex.initialize returned to the task that made the cortex, which goes
\* on to cortex.follow
CortexInitialized(p) ==
    /\ pc[p] = "f_initialize"
    /\ cortex' = [state |-> "ready", initialized |-> cortex.initialized + 1]
    /\ pc' = [pc EXCEPT ![p] = "f_call"]
    /\ UNCHANGED <<balance, spend_log, traces, sdk_available, d, result, hist,
                   paid, orch, started, prev, probe, agents, running>>

\* cortex.follow returned
FollowerFollowed(p) ==
    /\ pc[p] = "f_call"
    /\ UNCHANGED cortex
    /\ FollowReturned(p)

NextCortex ==
    \E p \in Procs :
        \/ \E goal \in Goals, max_cost \in MaxCostChoices :
              Dispatch(p, goal, "FOLLOWER", max_cost)
        \/ DispatchFollower(p)
        \/ EnsureCortex(p)
        \/ CortexInitialized(p)
        \/ FollowerFollowed(p)
        \/ Return(p)

SpecCortex == Init /\ [][NextCortex]_vars

\* The life of an LLMOS: it is constructed, booted, asked to execute goals
\* and shut down, each call awaited before the next one is made.
InitLifecycle ==
    /\ InitDispatcherIn({EmptyStore}, {EnsureSystemAgentRegistered({})})
    /\ running = FALSE
    /\ probe = NoProbe

\* boot: the kernel components are started, then _running is set
Boot ==
    /\ \A p \in Procs : pc[p] = "idle"
    /\ running' = TRUE
    /\ UNCHANGED <<balance, spend_log, traces, sdk_available, pc, d, result,
                   hist, paid, orch, started, prev, probe, agents, cortex>>

\* shutdown: _running is cleared, then the kernel components are stopped
Shutdown ==
    /\ \A p \in Procs : pc[p] = "idle"
    /\ running' = FALSE
    /\ UNCHANGED <<balance, spend_log, traces, sdk_available, pc, d, result,
                   hist, paid, orch, started, prev, probe, agents, cortex>>

\* what execute raises when the OS is not running
NotBooted == [kind |-> "raised", success |-> FALSE, mode |-> "none",
              cost |-> 0, error |-> "NOT_BOOTED", tool |-> "none"]

\* variant: execute goes on whether the OS is running or not
ExecuteAdmitsAlways(is_running) == TRUE

\* the test execute begins with
ExecuteAdmits(is_running) == is_running

\* execute up to its first await: it raises when the OS is not running,
\* else it resolves the project and asks the memory for recommendations
Execute(p, goal, mode, max_cost) ==
    /\ pc[p] = "idle"
    /\ started < MaxDispatches
    /\ started' = started + 1
    /\ IF ExecuteAdmits(running)
       THEN /\ d' = [d EXCEPT ![p] = [NoDispatch EXCEPT !.goal = goal,
                                                        !.req = mode,
                                                        !.max_cost = max_cost]]
            /\ pc' = [pc EXCEPT ![p] = "x_recommend"]
            /\ UNCHANGED result
       ELSE /\ result' = [result EXCEPT ![p] = NotBooted]
            /\ pc' = [pc EXCEPT ![p] = "done"]
            /\ UNCHANGED d
    /\ UNCHANGED <<balance, spend_log, traces, sdk_available, hist, paid,
                   orch, prev, probe, agents, cortex, running>>

\* execute after the recommendations returned: dispatcher.dispatch is
\* called with the goal, the mode and max_cost_usd
ExecuteDispatch(p) ==
    /\ pc[p] = "x_recommend"
    /\ d' = [d EXCEPT ![p].mode = IF d[p].req = "AUTO" THEN "none"
                                  ELSE d[p].req,
                      ![p].fresh = traces = EmptyStore]
    /\ pc' = [pc EXCEPT ![p] = IF d[p].req = "AUTO" THEN "decide"
                               ELSE Route(d[p].req)]
    /\ UNCHANGED <<balance, spend_log, traces, sdk_available, result, hist,
                   paid, orch, started, prev, probe, agents, cortex,
                   running>>

NextLifecycle ==
    \/ Boot
    \/ Shutdown
    \/ \E goal \in Goals, mode \in Modes, max_cost \in MaxCostChoices :
          Execute("d1", goal, mode, max_cost)
    \/ ExecuteDispatch("d1")
    \/ DetermineMode("d1")
    \/ DispatchCrystallized("d1")
    \/ DispatchFollower("d1")
    \/ FollowerReplayed("d1")
    \/ DispatchMixed("d1")
    \/ MixedCompleted("d1")
    \/ LearnerEnter("d1")
    \/ LearnerCompleted("d1")
    \/ OrchestratorEnter("d1")
    \/ OrchestratorPlanned("d1")
    \/ OrchestratorStepBegin("d1")
    \/ OrchestratorStepEnd("d1")
    \/ OrchestratorFinish("d1")
    \/ Return("d1")

SpecLifecycle == InitLifecycle /\ [][NextLifecycle]_vars

\* The conversion of a planner's answer on its own: the "steps" of the JSON
\* plan are entries that carry the number the planner gave them
StepNumbers == 1..(MaxSteps + 1)

PlanEntries == {[number |-> n] : n \in StepNumbers}

\* _decompose_goal from the parsed JSON on: each entry becomes a step that
\* takes the entry's number, and an answer without steps becomes the
\* fallback plan
StepsFromEntries(goal, entries) ==
    IF entries # <<>>
    THEN [i \in DOMAIN entries |->
             [number |-> entries[i].number, description |-> "sub",
              agent |-> "specialist", status |-> "pending",
              error |-> "none"]]
    ELSE <<FallbackStep(goal)>>

InitPlanNumbers ==
    /\ InitDispatcher
    /\ probe \in {[op |-> "decompose", goal |-> g, entries |-> e,
                    plan |-> <<>>] :
                      g \in Goals, e \in SeqsUpTo(PlanEntries, MaxSteps)}

\* orchestrate installs the plan that _decompose_goal returned
SetPlan ==
    /\ probe.op = "decompose"
    /\ probe.plan = <<>>
    /\ probe' = [probe EXCEPT !.plan = StepsFromEntries(probe.goal,
                                                        probe.entries)]
    /\ UNCHANGED dvars

SpecPlanNumbers == InitPlanNumbers /\ [][SetPlan]_vars

\* The configuration on its own.  Money is in thousandths of a dollar,
\* thresholds and rates are in hundredths, times are in seconds.
\* the field defaults of the five dataclasses
FieldDefaults ==
    [KernelConfig |->
        [budget_usd |-> 10000, enable_scheduling |-> TRUE,
         enable_watchdog |-> TRUE, watchdog_timeout_secs |-> 300],
     MemoryConfig |->
        [enable_llm_matching |-> TRUE, trace_confidence_threshold |-> 90,
         mixed_mode_threshold |-> 75, follower_mode_threshold |-> 92,
         enable_cross_project_learning |-> TRUE, cache_size |-> 100],
     SDKConfig |->
        [model |-> "claude-sonnet-4-5-20250929",
         permission_mode |-> "acceptEdits", max_turns |-> 10,
         timeout_seconds |-> 300, enable_streaming |-> FALSE,
         enable_hooks |-> TRUE],
     DispatcherConfig |->
        [complexity_threshold |-> 2, auto_crystallization |-> FALSE,
         crystallization_min_usage |-> 5,
         crystallization_min_success |-> 95],
     ExecutionLayerConfig |->
        [enable_advanced_tool_use |-> TRUE,
         beta_header |-> "advanced-tool-use-2025-11-20",
         enable_ptc |-> TRUE, ptc_container_timeout_secs |-> 120,
         ptc_max_containers |-> 5, enable_tool_search |-> TRUE,
         tool_search_use_embeddings |-> FALSE,
         tool_search_embedding_model |-> "all-MiniLM-L6-v2",
         tool_search_top_k |-> 5, defer_tools_by_default |-> TRUE,
         enable_tool_examples |-> TRUE,
         tool_examples_min_success_rate |-> 90,
         tool_examples_max_per_tool |-> 3,
         tool_examples_cache_ttl_secs |-> 300]]

\* a call without keyword arguments
NoKwargs == [f \in {} |-> TRUE]

\* the generated __init__ of a dataclass: a field takes its keyword
\* argument, else its default
Construct(defaults, kwargs) ==
    [f \in DOMAIN defaults |->
        IF f \in DOMAIN kwargs THEN kwargs[f] ELSE defaults[f]]

\* Each dataclass constructor: a keyword that is not a field is refused,
\* and __post_init__ raises on a value outside its range
KernelConfig(kwargs) ==
    LET k == Construct(FieldDefaults.KernelConfig, kwargs)
    IN  [raised |-> \/ ~(DOMAIN kwargs \subseteq DOMAIN k)
                    \/ k.budget_usd < 0
                    \/ k.watchdog_timeout_secs <= 0,
         value |-> k]

MemoryConfig(kwargs) ==
    LET m == Construct(FieldDefaults.MemoryConfig, kwargs)
    IN  [raised |-> \/ ~(DOMAIN kwargs \subseteq DOMAIN m)
                    \/ m.trace_confidence_threshold \notin 0..100
                    \/ m.mixed_mode_threshold \notin 0..100
                    \/ m.follower_mode_threshold \notin 0..100,
         value |-> m]

SDKConfig(kwargs) ==
    LET s == Construct(FieldDefaults.SDKConfig, kwargs)
    IN  [raised |-> \/ ~(DOMAIN kwargs \subseteq DOMAIN s)
                    \/ s.max_turns <= 0
                    \/ s.timeout_seconds <= 0,
         value |-> s]

DispatcherConfig(kwargs) ==
    LET dc == Construct(FieldDefaults.DispatcherConfig, kwargs)
    IN  [raised |-> \/ ~(DOMAIN kwargs \subseteq DOMAIN dc)
                    \/ dc.complexity_threshold < 0
                    \/ dc.crystallization_min_success \notin 0..100,
         value |-> dc]

ExecutionLayerConfig(kwargs) ==
    LET e == Construct(FieldDefaults.ExecutionLayerConfig, kwargs)
    IN  [raised |-> \/ ~(DOMAIN kwargs \subseteq DOMAIN e)
                    \/ e.ptc_container_timeout_secs <= 0
                    \/ e.ptc_max_containers <= 0
                    \/ e.tool_search_top_k <= 0
                    \/ e.tool_examples_min_success_rate \notin 0..100,
         value |-> e]

\* pathlib: the Path that each text names; str of a Path is its normal
\* text
NormalText ==
    [t \in {"./workspace", "workspace", "./test_workspace",
            "test_workspace", "/custom"} |->
        CASE t = "./workspace" -> "workspace"
          [] t = "./test_workspace" -> "test_workspace"
          [] OTHER -> t]

Path(text) == [parts |-> NormalText[text]]

Str(path) == path.parts

\* LLMOSConfig(...): the sections are constructed first, each raising on
\* its own check, and the workspace is made a Path
LLMOSConfig(workspace, kernel, memory, sdk, dispatcher, execution, project_name) ==
    [raised |-> kernel.raised \/ memory.raised \/ sdk.raised
                    \/ dispatcher.raised \/ execution.raised,
     config |-> [workspace |-> Path(workspace), kernel |-> kernel.value,
                 memory |-> memory.value, sdk |-> sdk.value,
                 dispatcher |-> dispatcher.value,
                 execution |-> execution.value,
                 project_name |-> project_name]]

LLMOSConfigDefault ==
    LLMOSConfig("./workspace", KernelConfig(NoKwargs), MemoryConfig(NoKwargs),
                SDKConfig(NoKwargs), DispatcherConfig(NoKwargs),
                ExecutionLayerConfig(NoKwargs), "none")

from_env(workspace, budget, model, enable_llm) ==
    LLMOSConfig(workspace, KernelConfig([budget_usd |-> budget]),
                MemoryConfig([enable_llm_matching |-> enable_llm]),
                SDKConfig([model |-> model]), DispatcherConfig(NoKwargs),
                ExecutionLayerConfig(NoKwargs), "none")

\* the presets
Presets ==
    [development |->
    LLMOSConfig("./workspace",
                KernelConfig([budget_usd |-> 1000, enable_watchdog |-> FALSE]),
                MemoryConfig([enable_llm_matching |-> FALSE,
                              trace_confidence_threshold |-> 80]),
                SDKConfig([enable_streaming |-> TRUE,
                           timeout_seconds |-> 600]),
                DispatcherConfig([auto_crystallization |-> FALSE]),
                ExecutionLayerConfig(
                    [enable_advanced_tool_use |-> TRUE, enable_ptc |-> TRUE,
                     enable_tool_search |-> TRUE,
                     tool_search_use_embeddings |-> FALSE,
                     enable_tool_examples |-> TRUE]),
                "none"),
     production |->
    LLMOSConfig("./workspace",
                KernelConfig([budget_usd |-> 100000,
                              enable_scheduling |-> TRUE,
                              enable_watchdog |-> TRUE]),
                MemoryConfig([enable_llm_matching |-> TRUE,
                              trace_confidence_threshold |-> 90,
                              enable_cross_project_learning |-> TRUE]),
                SDKConfig([enable_hooks |-> TRUE,
                           enable_streaming |-> FALSE]),
                DispatcherConfig([auto_crystallization |-> TRUE,
                                  complexity_threshold |-> 2]),
                ExecutionLayerConfig(
                    [enable_advanced_tool_use |-> TRUE, enable_ptc |-> TRUE,
                     enable_tool_search |-> TRUE,
                     tool_search_use_embeddings |-> TRUE,
                     enable_tool_examples |-> TRUE,
                     defer_tools_by_default |-> TRUE]),
                "none"),
     testing |->
    LLMOSConfig("./test_workspace",
                KernelConfig([budget_usd |-> 100,
                              enable_scheduling |-> FALSE,
                              enable_watchdog |-> FALSE]),
                MemoryConfig([enable_llm_matching |-> FALSE,
                              trace_confidence_threshold |-> 100,
                              enable_cross_project_learning |-> FALSE]),
                SDKConfig([timeout_seconds |-> 30,
                           enable_streaming |-> FALSE,
                           enable_hooks |-> FALSE]),
                DispatcherConfig([auto_crystallization |-> FALSE]),
                ExecutionLayerConfig(
                    [enable_advanced_tool_use |-> FALSE,
                     enable_ptc |-> FALSE, enable_tool_search |-> FALSE,
                     enable_tool_examples |-> FALSE]),
                "none")]

\* variant: only what example_9_serialization prints of the kernel
KernelToDictBudgetOnly(k) == [budget_usd |-> k.budget_usd]

\* the 'kernel' entry of to_dict
KernelToDict(k) ==
    [budget_usd |-> k.budget_usd, enable_scheduling |-> k.enable_scheduling,
     enable_watchdog |-> k.enable_watchdog,
     watchdog_timeout_secs |-> k.watchdog_timeout_secs]

to_dict(c) ==
    [workspace |-> Str(c.workspace),
     kernel |-> KernelToDict(c.kernel),
     memory |->
        [enable_llm_matching |-> c.memory.enable_llm_matching,
         trace_confidence_threshold |-> c.memory.trace_confidence_threshold,
         mixed_mode_threshold |-> c.memory.mixed_mode_threshold,
         follower_mode_threshold |-> c.memory.follower_mode_threshold,
         enable_cross_project_learning |->
             c.memory.enable_cross_project_learning,
         cache_size |-> c.memory.cache_size],
     sdk |->
        [model |-> c.sdk.model, permission_mode |-> c.sdk.permission_mode,
         max_turns |-> c.sdk.max_turns,
         timeout_seconds |-> c.sdk.timeout_seconds,
         enable_streaming |-> c.sdk.enable_streaming,
         enable_hooks |-> c.sdk.enable_hooks],
     dispatcher |->
        [complexity_threshold |-> c.dispatcher.complexity_threshold,
         auto_crystallization |-> c.dispatcher.auto_crystallization,
         crystallization_min_usage |-> c.dispatcher.crystallization_min_usage,
         crystallization_min_success |->
             c.dispatcher.crystallization_min_success],
     execution |->
        [enable_advanced_tool_use |-> c.execution.enable_advanced_tool_use,
         beta_header |-> c.execution.beta_header,
         enable_ptc |-> c.execution.enable_ptc,
         ptc_container_timeout_secs |->
             c.execution.ptc_container_timeout_secs,
         ptc_max_containers |-> c.execution.ptc_max_containers,
         enable_tool_search |-> c.execution.enable_tool_search,
         tool_search_use_embeddings |->
             c.execution.tool_search_use_embeddings,
         tool_search_embedding_model |->
             c.execution.tool_search_embedding_model,
         tool_search_top_k |-> c.execution.tool_search_top_k,
         defer_tools_by_default |-> c.execution.defer_tools_by_default,
         enable_tool_examples |-> c.execution.enable_tool_examples,
         tool_examples_min_success_rate |->
             c.execution.tool_examples_min_success_rate,
         tool_examples_max_per_tool |->
             c.execution.tool_examples_max_per_tool,
         tool_examples_cache_ttl_secs |->
             c.execution.tool_examples_cache_ttl_secs],
     project_name |-> c.project_name]

\* dict.get(key, default)
Get(data, key, default) == IF key \in DOMAIN data THEN data[key] ELSE default

from_dict(data) ==
    LLMOSConfig(Get(data, "workspace", "./workspace"),
                KernelConfig(Get(data, "kernel", NoKwargs)),
                MemoryConfig(Get(data, "memory", NoKwargs)),
                SDKConfig(Get(data, "sdk", NoKwargs)),
                DispatcherConfig(Get(data, "dispatcher", NoKwargs)),
                ExecutionLayerConfig(Get(data, "execution", NoKwargs)),
                Get(data, "project_name", "none"))

\* a configuration as it stands passes every check of the constructors
ValidConfig(c) ==
    ~LLMOSConfig(Str(c.workspace), KernelConfig(c.kernel),
                 MemoryConfig(c.memory), SDKConfig(c.sdk),
                 DispatcherConfig(c.dispatcher),
                 ExecutionLayerConfig(c.execution), c.project_name).raised

\* What callers pass: for each dataclass, no keyword or one keyword with a
\* value on either side of each check
BudgetInputs == {-1000, 0, 25000}

ThresholdInputs == {-1, 0, 50, 100, 101}

SectionKwargs ==
    [kernel |->
        {NoKwargs, [enable_scheduling |-> FALSE],
         [enable_watchdog |-> FALSE]}
        \cup {[budget_usd |-> b] : b \in BudgetInputs}
        \cup {[watchdog_timeout_secs |-> t] : t \in {0, 60}},
     memory |->
        {NoKwargs, [enable_llm_matching |-> FALSE],
         [enable_cross_project_learning |-> FALSE], [cache_size |-> 10]}
        \cup {[trace_confidence_threshold |-> t] : t \in ThresholdInputs}
        \cup {[mixed_mode_threshold |-> t] : t \in ThresholdInputs}
        \cup {[follower_mode_threshold |-> t] : t \in ThresholdInputs},
     sdk |->
        {NoKwargs, [model |-> "claude-opus-4"],
         [permission_mode |-> "default"], [enable_streaming |-> TRUE],
         [enable_hooks |-> FALSE]}
        \cup {[max_turns |-> n] : n \in {0, 3}}
        \cup {[timeout_seconds |-> t] : t \in {0, 30}},
     dispatcher |->
        {NoKwargs, [auto_crystallization |-> TRUE],
         [crystallization_min_usage |-> 3]}
        \cup {[complexity_threshold |-> n] : n \in {-1, 0, 3}}
        \cup {[crystallization_min_success |-> t] : t \in ThresholdInputs},
     execution |->
        {NoKwargs, [enable_advanced_tool_use |-> FALSE],
         [beta_header |-> "other-header"], [enable_ptc |-> FALSE],
         [enable_tool_search |-> FALSE],
         [tool_search_use_embeddings |-> TRUE],
         [tool_search_embedding_model |-> "other-model"],
         [defer_tools_by_default |-> FALSE],
         [enable_tool_examples |-> FALSE],
         [tool_examples_max_per_tool |-> 1],
         [tool_examples_cache_ttl_secs |-> 60]}
        \cup {[ptc_container_timeout_secs |-> t] : t \in {0, 60}}
        \cup {[ptc_max_containers |-> n] : n \in {0, 2}}
        \cup {[tool_search_top_k |-> n] : n \in {0, 3}}
        \cup {[tool_examples_min_success_rate |-> t] :
                  t \in ThresholdInputs}]

\* The construction calls: LLMOSConfig(...) with keywords for at most one
\* section, the presets, from_env for each environment, and from_dict of
\* a sparse dictionary, as read from a file written by hand
ConstructionCalls ==
    {LLMOSConfig(w, KernelConfig(k), MemoryConfig(NoKwargs),
                 SDKConfig(NoKwargs), DispatcherConfig(NoKwargs),
                 ExecutionLayerConfig(NoKwargs), n) :
        w \in {"./workspace", "/custom"}, k \in SectionKwargs.kernel,
        n \in {"none", "saved_project"}}
    \cup {LLMOSConfig("./workspace", KernelConfig(NoKwargs), MemoryConfig(m),
                      SDKConfig(NoKwargs), DispatcherConfig(NoKwargs),
                      ExecutionLayerConfig(NoKwargs), "none") :
             m \in SectionKwargs.memory}
    \cup {LLMOSConfig("./workspace", KernelConfig(NoKwargs),
                      MemoryConfig(NoKwargs), SDKConfig(s),
                      DispatcherConfig(NoKwargs),
                      ExecutionLayerConfig(NoKwargs),
                      "none") :
             s \in SectionKwargs.sdk}
    \cup {LLMOSConfig("./workspace", KernelConfig(NoKwargs),
                      MemoryConfig(NoKwargs), SDKConfig(NoKwargs),
                      DispatcherConfig(dc), ExecutionLayerConfig(NoKwargs),
                      "none") :
             dc \in SectionKwargs.dispatcher}
    \cup {LLMOSConfig("./workspace", KernelConfig(NoKwargs),
                      MemoryConfig(NoKwargs), SDKConfig(NoKwargs),
                      DispatcherConfig(NoKwargs), ExecutionLayerConfig(e),
                      "none") :
             e \in SectionKwargs.execution}
    \cup {Presets[name] : name \in DOMAIN Presets}
    \cup {from_env(w, b, "claude-sonnet-4-5-20250929", enable_llm) :
             w \in {"./workspace", "/custom"}, b \in BudgetInputs,
             enable_llm \in BOOLEAN}
    \cup {from_dict(data) :
             data \in {NoKwargs, [workspace |-> "/custom",
                                  project_name |-> "saved_project"]}
                      \cup {[kernel |-> k] : k \in SectionKwargs.kernel}
                      \cup {[memory |-> m] : m \in SectionKwargs.memory}
                      \cup {[dispatcher |-> dc] :
                                dc \in SectionKwargs.dispatcher}}

InitConfig ==
    /\ InitDispatcherWith({EmptyStore})
    /\ probe = [op |-> "config", stage |-> "start",
                config |-> LLMOSConfigDefault.config, data |-> NoKwargs,
                loaded |-> LLMOSConfigDefault]

\* a construction call returns a configuration, or raises
ObtainConfig ==
    /\ probe.op = "config"
    /\ probe.stage = "start"
    /\ \E made \in ConstructionCalls :
          probe' = [probe EXCEPT
                       !.stage = IF made.raised THEN "raised" ELSE "config",
                       !.config = IF made.raised THEN @ ELSE made.config]
    /\ UNCHANGED dvars

\* ConfigBuilder(): the builder holds LLMOSConfig()
NewBuilder ==
    /\ probe.op = "config"
    /\ probe.stage = "start"
    /\ probe' = [probe EXCEPT !.stage = "builder",
                               !.config = LLMOSConfigDefault.config]
    /\ UNCHANGED dvars

\* a with_* call assigns the field of the configuration the builder holds
BuilderWith(config) ==
    /\ probe.op = "config"
    /\ probe.stage = "builder"
    /\ probe' = [probe EXCEPT !.config = config]
    /\ UNCHANGED dvars

with_workspace ==
    \E w \in {"/custom"} :
        BuilderWith([probe.config EXCEPT !.workspace = Path(w)])

with_budget ==
    \E b \in BudgetInputs :
        BuilderWith([probe.config EXCEPT !.kernel.budget_usd = b])

with_llm_matching ==
    \E enabled \in BOOLEAN :
        BuilderWith([probe.config EXCEPT
                        !.memory.enable_llm_matching = enabled])

with_model ==
    \E model \in {"claude-opus-4"} :
        BuilderWith([probe.config EXCEPT !.sdk.model = model])

with_streaming ==
    \E enabled \in BOOLEAN :
        BuilderWith([probe.config EXCEPT !.sdk.enable_streaming = enabled])

with_project ==
    \E n \in {"saved_project"} :
        BuilderWith([probe.config EXCEPT !.project_name = n])

with_auto_crystallization ==
    \E enabled \in BOOLEAN :
        BuilderWith([probe.config EXCEPT
                        !.dispatcher.auto_crystallization = enabled])

build ==
    /\ probe.op = "config"
    /\ probe.stage = "builder"
    /\ probe' = [probe EXCEPT !.stage = "config"]
    /\ UNCHANGED dvars

\* example_9_serialization: the configuration is exported ...
ExportConfig ==
    /\ probe.op = "config"
    /\ probe.stage = "config"
    /\ probe' = [probe EXCEPT !.stage = "exported",
                               !.data = to_dict(probe.config)]
    /\ UNCHANGED dvars

\* ... and loaded again
LoadConfig ==
    /\ probe.op = "config"
    /\ probe.stage = "exported"
    /\ probe' = [probe EXCEPT !.stage = "loaded",
                               !.loaded = from_dict(probe.data)]
    /\ UNCHANGED dvars

NextConfig ==
    \/ ObtainConfig
    \/ NewBuilder
    \/ with_workspace
    \/ with_budget
    \/ with_llm_matching
    \/ with_model
    \/ with_streaming
    \/ with_project
    \/ with_auto_crystallization
    \/ build
    \/ ExportConfig
    \/ LoadConfig

SpecConfig == InitConfig /\ [][NextConfig]_vars

-----------------------------------------------------------------------------
(* Properties *)

Range(seq) == {seq[i] : i \in DOMAIN seq}

IsPrefix(a, b) == Len(a) <= Len(b) /\ SubSeq(b, 1, Len(a)) = a

PaidModes == {"LEARNER", "MIXED", "ORCHESTRATOR"}

\* the task stands at the budget check of a paid branch
AtBudgetCheck(p) ==
    \/ pc[p] \in {"l_check", "o_check"}
    \/ pc[p] = "m_find" /\ MixedLookup(traces, d[p].goal).found

\* the task has passed its budget check and has not yet come to its deduct
Admitted(p) ==
    /\ pc[p] \in {"l_exec", "m_exec", "o_plan", "o_step", "o_delegate",
                  "o_finish"}
    /\ "CHECK_OK" \in Range(hist[p])

\* what the finished dispatch of p took from the balance
DeductedBy(p) == IF "DEDUCT" \in Range(hist[p]) THEN result[p].cost ELSE 0

\* C1: when the budget check of a paid branch (LEARNER, MIXED or
\* ORCHESTRATOR) fails, the dispatch ends in that step with a returned
\* result of success = false and the mode of that branch, no execution is
\* started, and the balance, the spend log and the traces are unchanged.
C1_BudgetCheckFailure ==
    [][\A p \in Procs :
          (/\ AtBudgetCheck(p)
           /\ ~CheckBudget(balance, d[p].max_cost)
           /\ pc'[p] # pc[p])
          => /\ pc'[p] = "done"
             /\ result'[p] = Failure(BranchMode(pc[p]), "LOW_BATTERY")
             /\ "EXEC" \notin Range(hist'[p])
             /\ balance' = balance
             /\ spend_log' = spend_log
             /\ traces' = traces]_vars

C1_Witness ==
    \E p \in Procs :
        /\ pc[p] = "done"
        /\ result[p] = Failure("ORCHESTRATOR", "LOW_BATTERY")
        /\ d[p].req = "ORCHESTRATOR"
        /\ balance < d[p].max_cost

\* C2: the balance is never negative, and a step in which a deduct is
\* refused leaves the balance and the spend log unchanged.
C2_BalanceNeverNegative ==
    /\ [](balance >= 0)
    /\ [][\A p \in Procs :
             (/\ "DEDUCT_REFUSED" \notin Range(hist[p])
              /\ "DEDUCT_REFUSED" \in Range(hist'[p]))
             => balance' = balance /\ spend_log' = spend_log]_vars

C2_Witness ==
    \E p \in Procs :
        /\ pc[p] = "done"
        /\ result[p] = Raised
        /\ paid[p] > balance
        /\ balance >= 0

\* C3: the amounts of the spend log and the balance add up to the initial
\* budget, and the spend log only grows by appending.
C3_SpendLogAccountsForBudget ==
    /\ [](TotalSpent(spend_log) + balance = InitialBudget)
    /\ [][IsPrefix(spend_log, spend_log')]_vars

C3_Witness ==
    /\ Len(spend_log) = 2
    /\ balance < InitialBudget
    /\ \E p \in Procs : pc[p] = "done" /\ "DEDUCT" \in Range(hist[p])

\* C4: check and deduct are serialized: at most one dispatch at a time is
\* between its successful budget check and its own deduct.
C4_CheckDeductSerialized ==
    Cardinality({p \in Procs : Admitted(p)}) <= 1

\* C5: within one dispatch the mode decision comes before the budget
\* check, and every start of an execution of a paid branch comes after a
\* passed budget check.
C5_DecideCheckExecuteOrder ==
    \A p \in Procs :
        /\ \A i \in DOMAIN hist[p] :
              hist[p][i] = "EXEC"
                  => \E j \in 1..(i - 1) : hist[p][j] = "CHECK_OK"
        /\ \A i \in DOMAIN hist[p] :
              (hist[p][i] \in {"CHECK_OK", "CHECK_FAIL"} /\ d[p].req = "AUTO")
                  => \E j \in 1..(i - 1) : hist[p][j] = "DECIDE"
        /\ pc[p] \in {"l_exec", "m_exec", "o_plan", "o_delegate"}
              => "EXEC" \in Range(hist[p])

C5_Witness ==
    \E p \in Procs :
        /\ pc[p] = "m_exec"
        /\ d[p].req = "AUTO"
        /\ hist[p] = <<"DECIDE", "CHECK_OK", "EXEC">>

\* C6: a dispatch that executed a paid branch has taken from the balance
\* exactly the cost the adapter reported for its executions.
C6_DeductsReportedCost ==
    \A p \in Procs :
        (pc[p] = "done" /\ "EXEC" \in Range(hist[p]))
            => DeductedBy(p) = paid[p]

\* C7: the usage_count of the trace stored under a signature never
\* decreases, and it is at least 1 for every stored trace.
C7_UsageCountMonotonic ==
    /\ [](\A s \in Sigs : traces[s].stored => traces[s].usage_count >= 1)
    /\ [][\A s \in Sigs :
             traces[s].stored
                 => /\ traces'[s].stored
                    /\ traces'[s].usage_count >= traces[s].usage_count]_vars

\* C8: after a successful dispatch of a goal with the auto strategy, made
\* when no trace was stored at all, the next dispatch of the same goal
\* with the auto strategy selects FOLLOWER or CRYSTALLIZED, costs nothing
\* and leaves the goal's trace with usage_count = 2.
C8_SecondDispatchFollows ==
    \A p \in Procs :
        (/\ pc[p] = "done"
         /\ d[p].req = "AUTO"
         /\ prev.auto /\ prev.success /\ prev.fresh
         /\ prev.goal = d[p].goal)
        => /\ result[p].kind = "returned"
           /\ result[p].mode \in {"FOLLOWER", "CRYSTALLIZED"}
           /\ result[p].cost = 0
           /\ traces[GoalSignature(d[p].goal)].usage_count = 2

\* C9: a trace is replayed in FOLLOWER mode only if it is stored under the
\* goal's own signature or matches the goal with confidence >= 0.92.
C9_FollowerReplaysOnlyCloseMatch ==
    \A p \in Procs :
        "REPLAY" \in Range(hist[p])
            => /\ traces[d[p].sig].stored
               /\ \/ d[p].sig = GoalSignature(d[p].goal)
                  \/ /\ d[p].confidence >= FollowerMinConfidence
                     /\ Similarity(d[p].goal, traces[d[p].sig].goal_text)
                            >= FollowerMinConfidence

C9_Witness ==
    \E p \in Procs :
        /\ pc[p] = "f_follow"
        /\ d[p].sig # GoalSignature(d[p].goal)
        /\ d[p].confidence >= FollowerMinConfidence

\* C10: a dispatch for which FOLLOWER was requested and no trace was
\* found to replay does not end as a failed FOLLOWER result: it runs as
\* MIXED or LEARNER.
C10_FollowerDowngraded ==
    \A p \in Procs :
        (/\ pc[p] = "done"
         /\ d[p].req = "FOLLOWER"
         /\ "REPLAY" \notin Range(hist[p]))
        => /\ result[p].mode \in {"MIXED", "LEARNER"}
           /\ result[p] # FollowerNoTrace

\* C11: a FOLLOWER dispatch whose replay of the matched trace failed does
\* not return the failed replay as its result: it continues as MIXED.
C11_FailedReplayDowngraded ==
    \A p \in Procs :
        (pc[p] = "done" /\ "REPLAY" \in Range(hist[p]))
            => /\ result[p] # FollowerResult(FALSE)
               /\ ~result[p].success => result[p].mode = "MIXED"

\* C12: a successful CRYSTALLIZED dispatch reports cost 0, starts no paid
\* execution and names a tool that is registered.
C12_CrystallizedToolRegistered ==
    \A p \in Procs :
        (pc[p] = "done" /\ result[p].mode = "CRYSTALLIZED"
                        /\ result[p].success)
            => /\ result[p].cost = 0
               /\ "EXEC" \notin Range(hist[p])
               /\ result[p].tool \in RegisteredTools

\* C13: the steps of a FOLLOWER dispatch leave the balance and the spend
\* log as they were, and the result of a replay reports cost 0.
C13_FollowerIsFree ==
    [][\A p \in Procs :
          (pc[p] \in {"f_find", "f_follow"} /\ pc'[p] # pc[p])
          => /\ balance' = balance
             /\ spend_log' = spend_log
             /\ (pc'[p] = "done" /\ result'[p].success)
                    => /\ result'[p].mode = "FOLLOWER"
                       /\ result'[p].cost = 0]_vars

C13_Witness ==
    \E p \in Procs :
        /\ pc[p] = "done"
        /\ result[p] = FollowerResult(TRUE)
        /\ spend_log # <<>>
        /\ balance < InitialBudget

Statuses(p) == {orch[p].plan[i].status : i \in DOMAIN orch[p].plan}

\* orchestrate returned an OrchestrationResult for a plan it had made
Orchestrated(p) ==
    /\ pc[p] = "done"
    /\ result[p].kind = "returned"
    /\ result[p].mode = "ORCHESTRATOR"
    /\ orch[p].plan # <<>>

\* C15: the result of an orchestration has success = true if and only if
\* every step of the plan ended in status completed.
C15_SuccessIffAllCompleted ==
    \A p \in Procs :
        Orchestrated(p)
            => (result[p].success <=> Statuses(p) = {"completed"})

\* C16: when an orchestration found its accumulated cost >= max_cost_usd
\* before a delegation, every step it had not finished is marked failed
\* and its result has success = false.
C16_BudgetExceededMarksFailed ==
    \A p \in Procs :
        (Orchestrated(p) /\ "BUDGET_EXCEEDED" \in Range(hist[p]))
            => /\ Statuses(p) \subseteq {"completed", "failed"}
               /\ ~result[p].success

\* C17: while a step is being delegated, the cost reported so far by the
\* delegations of the orchestration is below max_cost_usd.
C17_NoDelegationOverBudget ==
    \A p \in Procs :
        pc[p] = "o_delegate" => paid[p] < d[p].max_cost

C22_DelegationHasAgentSpec ==
    /\ []("system-agent" \in agents)
    /\ [][\A p \in Procs :
             (pc[p] = "o_step" /\ pc'[p] # pc[p])
             => /\ pc'[p] \in {"o_delegate", "o_finish"}
                /\ pc'[p] = "o_delegate"
                      => orch'[p].agent_spec =
                            IF orch[p].plan[orch[p].idx].agent \in agents
                            THEN orch[p].plan[orch[p].idx].agent
                            ELSE "system-agent"]_vars

C22_Witness ==
    \E p \in Procs :
        /\ pc[p] = "o_delegate"
        /\ orch[p].plan[orch[p].idx].agent = "specialist"
        /\ "specialist" \notin agents
        /\ orch[p].agent_spec = "system-agent"

\* C23: the accumulated cost an orchestration compares with max_cost_usd,
\* and the cost it reports and has deducted, include the cost of the
\* planning call.
C23_PlanningCostCounted ==
    \A p \in Procs :
        /\ pc[p] \in {"o_step", "o_delegate", "o_finish"}
              => orch[p].total_cost >= orch[p].planning_cost
        /\ (Orchestrated(p) /\ result[p].success)
              => /\ result[p].cost >= orch[p].planning_cost
                 /\ DeductedBy(p) >= orch[p].planning_cost

\* C24: a dispatch cancelled at a suspension point has marked the step it
\* was in failed with reason CANCELLED, has persisted its state and
\* published TASK_COMPLETED, and has deducted nothing.
C24_CancellationHandled ==
    \A p \in Procs :
        "CANCEL" \in Range(hist[p])
            => /\ \A i \in DOMAIN orch[p].plan :
                     i = orch[p].idx
                         => /\ orch[p].plan[i].status = "failed"
                            /\ orch[p].plan[i].error = "CANCELLED"
               /\ "STATE_COMPLETE" \in Range(hist[p])
               /\ "TASK_COMPLETED" \in Range(hist[p])
               /\ "DEDUCT" \notin Range(hist[p])

\* C25: a dispatch that has ended, in whatever mode and with whatever
\* outcome, has published TASK_STARTED and exactly one TASK_COMPLETED.
C25_EveryDispatchEmitsEvents ==
    \A p \in Procs :
        pc[p] = "done"
            => /\ "TASK_STARTED" \in Range(hist[p])
               /\ Cardinality({i \in DOMAIN hist[p] :
                                   hist[p][i] = "TASK_COMPLETED"}) = 1

C27_AdapterErrorPersisted ==
    \A p \in Procs :
        (pc[p] = "done" /\ result[p].kind = "returned"
                        /\ result[p].error = "EXCEPTION")
            => /\ traces[GoalSignature(d[p].goal)].stored
               /\ traces[GoalSignature(d[p].goal)].error_notes
               /\ traces[GoalSignature(d[p].goal)].success_rating = 50
               /\ ~result[p].success

\* the places of the fed messages at which a tool is used, in stream order
UsePositions(name) ==
    UNION {{m * (MaxBlocks + 1) + b :
               b \in {c \in DOMAIN probe.stream[m].content :
                          probe.stream[m].content[c] = name}} :
           m \in 1..probe.fed}

FirstUse(name) ==
    CHOOSE x \in UsePositions(name) : \A y \in UsePositions(name) : x <= y

\* C28: after any messages fed to a TraceBuilder, tools_used holds no name
\* twice, holds exactly the names of the tools the messages used, and
\* lists them in the order of their first use.
C28_ToolsUsedOrderedDeduplicated ==
    probe.op = "trace_builder"
        => LET t == probe.tools_used
           IN  /\ \A i, j \in DOMAIN t : i # j => t[i] # t[j]
               /\ sdk_available
                     => Range(t) = {n \in ToolNames : UsePositions(n) # {}}
               /\ \A i, j \in DOMAIN t :
                     i < j => FirstUse(t[i]) < FirstUse(t[j])

C28_Witness ==
    /\ probe.op = "trace_builder"
    /\ probe.fed = 2
    /\ probe.stream[1].content = <<"Write", "Read">>
    /\ probe.stream[2].content = <<"Read", "Write">>
    /\ probe.tools_used = <<"Write", "Read">>

\* C29: one dispatch makes at most one paid similarity call, the lookup of
\* the mode decision and the lookup of the selected branch taken together.
C29_OnePaidMatchPerDispatch ==
    \A p \in Procs : d[p].llm_calls <= 1

\* C30: the trace a dispatch saves through the SDK client carries the mode
\* of that dispatch: MIXED when the mixed branch saved it, LEARNER when the
\* learner branch did.
C30_TraceModeIsProducer ==
    [][\A p \in Procs :
          (pc[p] \in {"m_exec", "l_exec"} /\ pc'[p] = "done"
              /\ sdk_available /\ "PERSIST" \in Range(hist'[p]))
          => /\ traces'[GoalSignature(d[p].goal)].stored
             /\ traces'[GoalSignature(d[p].goal)].mode = BranchMode(pc[p])]_vars

\* C31: the plan installed by an orchestration has strictly increasing
\* step numbers, whatever the planner answered
C31_PlanNumbersIncrease ==
    probe.op = "decompose" =>
        \A i, j \in DOMAIN probe.plan :
            i < j => probe.plan[i].number < probe.plan[j].number

\* C32: every configuration obtained through a public construction path
\* has its confidence thresholds and crystallization_min_success in [0, 1]
\* and a budget that is not negative
C32_ObtainedConfigInRange ==
    (probe.op = "config" /\ probe.stage \in {"config", "exported", "loaded"})
        => /\ probe.config.memory.trace_confidence_threshold \in 0..100
           /\ probe.config.memory.mixed_mode_threshold \in 0..100
           /\ probe.config.memory.follower_mode_threshold \in 0..100
           /\ probe.config.dispatcher.crystallization_min_success \in 0..100
           /\ probe.config.kernel.budget_usd >= 0

\* C33: a valid configuration that is exported with to_dict and loaded with
\* from_dict comes back equal, field by field
C33_ConfigRoundTrip ==
    (probe.op = "config" /\ probe.stage = "loaded"
        /\ ValidConfig(probe.config))
        => /\ ~probe.loaded.raised
           /\ \A f \in {"workspace", "kernel", "memory", "sdk", "dispatcher",
                        "execution", "project_name"} :
                  probe.loaded.config[f] = probe.config[f]

\* a configuration that differs from the default in its workspace, its
\* budget, its model and its project came back from the round trip
C33_Witness ==
    /\ probe.op = "config"
    /\ probe.stage = "loaded"
    /\ ValidConfig(probe.config)
    /\ probe.config.workspace = Path("/custom")
    /\ probe.config.kernel.budget_usd = 25000
    /\ probe.config.sdk.model = "claude-opus-4"
    /\ probe.config.project_name = "saved_project"
    /\ probe.loaded.config = probe.config

\* C34: every trace that a LEARNER or MIXED dispatch stored through the SDK
\* client is stored under the signature of its own goal_text, so an exact
\* lookup of that goal_text finds it
C34_SignatureIsOfGoalText ==
    sdk_available =>
        \A s \in DOMAIN traces :
            traces[s].stored => GoalSignature(traces[s].goal_text) = s

\* C35: when execute_learner_mode returns, the trace it saved is rated 1.0
\* only if the returned result has success = true, and a returned result
\* with an error has success = false
C35_RatingAgreesWithResult ==
    [][\A p \in Procs :
          (/\ sdk_available
           /\ pc[p] \in {"l_exec", "m_exec"}
           /\ pc'[p] = "done"
           /\ result'[p].kind = "returned")
          => LET trace == traces'[GoalSignature(d[p].goal)]
             IN  /\ trace.success_rating = 100 => result'[p].success
                 /\ result'[p].error # "none" => ~result'[p].success]_vars

\* C36: the trace an AUTO dispatch acts on (replays, uses as guidance, or
\* runs the tool of) is the trace its mode decision was based on
C36_ActsOnDecidedTrace ==
    \A p \in Procs :
        (d[p].req = "AUTO" /\ d[p].sig # "none") => d[p].sig = d[p].decided

\* C37: when orchestrate has returned, its steps_completed is the number
\* of completed steps of the plan, its total_steps is the length of the
\* plan, and its cost_usd is the cost reported by the steps delegated
C37_ResultCountsAndCost ==
    \A p \in Procs :
        (pc[p] = "done" /\ "TASK_STARTED" \in Range(hist[p]))
            => /\ orch[p].steps_completed =
                      Cardinality({i \in DOMAIN orch[p].plan :
                                      orch[p].plan[i].status = "completed"})
               /\ orch[p].total_steps = Len(orch[p].plan)
               /\ orch[p].cost_usd = paid[p]

\* C38: under any interleaving of dispatches the cortex is initialized at
\* most once, and cortex.follow is invoked only on a cortex whose
\* initialization has completed
C38_CortexReadyBeforeUse ==
    /\ [](cortex.initialized <= 1)
    /\ [][\A p \in Procs :
             (pc[p] # "f_call" /\ pc'[p] = "f_call")
                 => cortex'.state = "ready"]_vars

\* C39: a MIXED dispatch that found no trace of confidence >= 0.75 runs
\* the LEARNER path from its budget check on and returns a result of mode
\* LEARNER, and the MIXED execution never starts without a guidance trace
C39_MixedWithoutTraceRunsLearner ==
    \A p \in Procs :
        /\ pc[p] = "m_exec"
              => /\ d[p].sig # "none"
                 /\ traces[d[p].sig].stored
                 /\ d[p].confidence >= MixedMinConfidence
        /\ (d[p].mode = "MIXED" /\ d[p].sig = "none"
               /\ pc[p] \in {"l_exec", "done"})
              => \/ "CHECK_OK" \in Range(hist[p])
                 \/ "CHECK_FAIL" \in Range(hist[p])
        /\ (d[p].mode = "MIXED" /\ d[p].sig = "none" /\ pc[p] = "done"
               /\ result[p].kind = "returned")
              => result[p].mode = "LEARNER"

\* a requested MIXED dispatch found no trace, passed the learner's budget
\* check and returned a successful LEARNER result
C39_Witness ==
    /\ pc["d1"] = "done"
    /\ d["d1"].req = "MIXED"
    /\ d["d1"].sig = "none"
    /\ "CHECK_OK" \in Range(hist["d1"])
    /\ result["d1"].kind = "returned"
    /\ result["d1"].mode = "LEARNER"
    /\ result["d1"].success

=============================================================================
